---- MODULE Spec2Model ----
(***************************************************************************)
(* A state-machine model of calories-burnt-predictor-model.ipynb: the      *)
(* notebook run top to bottom.  Each statement (or group of statements)    *)
(* of a cell that changes the kernel's state is one action.                *)
(*                                                                         *)
(* Arithmetic.  Every table value of the model is an integer, and a        *)
(* z-score is compared with the threshold exactly: |z| < 3 is decided as   *)
(* n * (n*x - sum)^2 < 9 * SUM (n*x_i - sum)^2 over the integers, which is *)
(* (x - mean)^2 / (SUM (x_i - mean)^2 / n) < 9 cleared of denominators.    *)
(* A column of zero variance makes scipy's zscore divide 0 by 0: the       *)
(* z-score is NaN, and NaN < 3 is False.  float64 rounding is not          *)
(* modelled.                                                               *)
(***************************************************************************)
EXTENDS Integers, Sequences, FiniteSets, TLC

VARIABLES
    exercise_csv,   \* /content/exercise.csv: a sequence of rows
    calories_csv,   \* /content/calories.csv: a sequence of rows
    pc,             \* the next statement of the notebook to run
    error,          \* the exception that stopped the run, or "none"
    calories_data,  \* the DataFrame every cell up to cell 5 mutates
    X, Y,           \* cell 5: the feature matrix and the target Series
    X_train, X_test, Y_train, Y_test,
    pipeline,       \* cell 6: the Pipeline object
    cv_scores,      \* cell 6: what cross_val_score returned
    predictions,    \* cell 7: pipeline.predict(X_test)
    metrics,        \* cell 7: mae, mse, rmse, r2
    artifact        \* cell 9: the content of calories_predictor_model.pkl

vars == <<exercise_csv, calories_csv, pc, error, calories_data, X, Y,
          X_train, X_test, Y_train, Y_test, pipeline, cv_scores,
          predictions, metrics, artifact>>

(***************************************************************************)
(* Bounds of the model.                                                    *)
(***************************************************************************)
\* The most rows an input file holds.
MaxRows == 12
\* The ages 0..MaxAge the age-bucket specification draws from.
MaxAge == 85
\* The shuffles the splitter may draw: rotations by less than ShiftBound,
\* each also reversed.
ShiftBound == 1

(***************************************************************************)
(* Program constants.                                                      *)
(***************************************************************************)
ZThreshold == 3
TestSizePercent == 20
CvFolds == 5
NEstimators == 100
ForestSeed == 42
Bins == <<0, 18, 35, 50, 80>>
Labels == <<0, 1, 2, 3>>

(***************************************************************************)
(* Helpers on sequences.                                                   *)
(***************************************************************************)
RECURSIVE SumTo(_, _)
\* f[1] + ... + f[n]
SumTo(f, n) == IF n = 0 THEN 0 ELSE f[n] + SumTo(f, n - 1)

\* The subsequence of the rows of s that satisfy Keep, in s's order: boolean
\* indexing of a DataFrame.
RECURSIVE SelectRows(_, _)
SelectRows(s, keep) ==
    IF s = <<>> THEN <<>>
    ELSE IF keep[1]
         THEN <<Head(s)>> \o SelectRows(Tail(s), Tail(keep))
         ELSE SelectRows(Tail(s), Tail(keep))

(***************************************************************************)
(* The input files.  A file is a sequence of rows; the rows of the model   *)
(* are drawn from four kinds of session, and a file lists its rows kind by *)
(* kind.  Heights and weights are chosen so that BMI is an integer.        *)
(***************************************************************************)
KindNames == <<"A", "B", "C", "D">>

ExerciseKind ==
    [A |-> [Gender |-> "female", Age |-> 40, Height |-> 160, Weight |-> 64,
            Duration |-> 3, Heart_Rate |-> 102, Body_Temp |-> 39],
     B |-> [Gender |-> "male",   Age |-> 81, Height |-> 160, Weight |-> 64,
            Duration |-> 3, Heart_Rate |-> 102, Body_Temp |-> 39],
     C |-> [Gender |-> "male",   Age |-> 20, Height |-> 200, Weight |-> 80,
            Duration |-> 2, Heart_Rate |-> 100, Body_Temp |-> 40],
     D |-> [Gender |-> "male",   Age |-> 20, Height |-> 200, Weight |-> 80,
            Duration |-> 2, Heart_Rate |-> 100, Body_Temp |-> 40]]

CaloriesKind == [A |-> 60, B |-> 60, C |-> 300, D |-> 130]

\* The kind of the i-th row (1-based) of a file holding cnt[k] rows of the
\* k-th kind, kind by kind.
RECURSIVE KindAt(_, _, _)
KindAt(cnt, i, k) ==
    IF i <= cnt[k] THEN KindNames[k] ELSE KindAt(cnt, i - cnt[k], k + 1)

ExerciseFile(cnt) ==
    [i \in 1..SumTo(cnt, Len(KindNames)) |->
        [User_ID |-> 1000 + i] @@ ExerciseKind[KindAt(cnt, i, 1)]]

CaloriesFile(cnt) ==
    [i \in 1..SumTo(cnt, Len(KindNames)) |->
        [User_ID |-> 1000 + i, Calories |-> CaloriesKind[KindAt(cnt, i, 1)]]]

RowCounts ==
    {cnt \in [1..Len(KindNames) -> 0..MaxRows] :
        SumTo(cnt, Len(KindNames)) <= MaxRows}

(***************************************************************************)
(* Cell 2: read the two files and put them side by side.  pd.concat with   *)
(* axis=1 aligns the rows on the RangeIndex read_csv gave each file, that  *)
(* is by position; the files of the model hold the same number of rows.    *)
(***************************************************************************)
Concat(exercise_data, calories) ==
    [i \in 1..Len(exercise_data) |->
        [index |-> i - 1] @@ exercise_data[i]
            @@ [Calories |-> calories[i].Calories]]

(***************************************************************************)
(* Cell 3: feature engineering, one row at a time.                         *)
(***************************************************************************)
\* calories_data.replace({"Gender": {'male': 0, 'female': 1}})
ReplaceGender(g) ==
    IF g = "male" THEN 0 ELSE IF g = "female" THEN 1 ELSE g

\* Weight / (Height / 100) ** 2; the heights and weights of the model make
\* the quotient exact.
BMI(weight, height) == (weight * 10000) \div (height * height)

\* The bins left-closed: pd.cut with right=False.
AgeGroup_LeftClosed(age) ==
    {Labels[k] : k \in {j \in 1..Len(Labels) : Bins[j] <= age /\ age < Bins[j + 1]}}

\* pd.cut(Age, bins=[0, 18, 35, 50, 80], labels=[0, 1, 2, 3]): the labels of
\* the right-closed bins (Bins[k], Bins[k+1]] that hold the age.  pd.cut
\* yields NaN for an age in no bin: the empty set here.
AgeGroup(age) ==
    {Labels[k] : k \in {j \in 1..Len(Labels) : Bins[j] < age /\ age <= Bins[j + 1]}}

EngineerRow(r) ==
    [index                |-> r.index,
     Gender               |-> ReplaceGender(r.Gender),
     Age                  |-> r.Age,
     Height               |-> r.Height,
     Weight               |-> r.Weight,
     Duration             |-> r.Duration,
     Heart_Rate           |-> r.Heart_Rate,
     Body_Temp            |-> r.Body_Temp,
     Calories             |-> r.Calories,
     BMI                  |-> BMI(r.Weight, r.Height),
     Age_Group            |-> AgeGroup(r.Age),
     Age_x_Duration       |-> r.Age * r.Duration,
     Weight_x_Duration    |-> r.Weight * r.Duration,
     HeartRate_x_BodyTemp |-> r.Heart_Rate * r.Body_Temp]

FeatureEngineer(df) == [i \in 1..Len(df) |-> EngineerRow(df[i])]

(***************************************************************************)
(* Cell 4: the outlier filter.                                             *)
(***************************************************************************)
\* The columns of calories_data when cell 4 runs, in order.
Columns ==
    <<"Gender", "Age", "Height", "Weight", "Duration", "Heart_Rate",
      "Body_Temp", "Calories", "BMI", "Age_Group", "Age_x_Duration",
      "Weight_x_Duration", "HeartRate_x_BodyTemp">>

\* pd.cut makes Age_Group a categorical column; every other column holds
\* integers or floats (Gender after the replace of cell 3).
Dtype(c) == IF c = "Age_Group" THEN "category" ELSE "number"

\* The numeric columns with the target left out.
NumericColumns_FeaturesOnly ==
    {Columns[k] : k \in {j \in 1..Len(Columns) :
        Dtype(Columns[j]) = "number" /\ Columns[j] # "Calories"}}

\* calories_data.select_dtypes(include=[np.number]).columns
NumericColumns == {Columns[k] : k \in {j \in 1..Len(Columns) : Dtype(Columns[j]) = "number"}}

\* Column c of df: n times each value's deviation from the column mean.
Deviations(df, c) ==
    LET n == Len(df)
        s == SumTo([i \in 1..n |-> df[i][c]], n)
    IN  [i \in 1..n |-> n * df[i][c] - s]

\* SUM dev[j]^2: n^3 times the column's variance (ddof = 0).
SumSquares(dev) == SumTo([j \in 1..Len(dev) |-> dev[j] * dev[j]], Len(dev))

\* The comparison with <= in place of <.
AbsZBelow_AtMost(n, d, ss) ==
    /\ ss # 0
    /\ n * d * d <= ZThreshold * ZThreshold * ss

\* np.abs(zscore(column))[i] < ZThreshold for a value of deviation d in a
\* column of n values with sum of squared deviations ss:
\* z = (d/n) / sqrt(ss/n^3).  A zero standard deviation makes z NaN, and
\* NaN < 3 is False.
AbsZBelow(n, d, ss) ==
    /\ ss # 0
    /\ n * d * d < ZThreshold * ZThreshold * ss

\* A mask that keeps a row when some column is inside the threshold: any
\* in place of all.
RowMask_Any(df) ==
    LET dev == [c \in NumericColumns |-> Deviations(df, c)]
        ss  == [c \in NumericColumns |-> SumSquares(dev[c])]
    IN  [i \in 1..Len(df) |->
            \E c \in NumericColumns : AbsZBelow(Len(df), dev[c][i], ss[c])]

\* (z_scores < 3).all(axis=1)
RowMask(df) ==
    LET dev == [c \in NumericColumns |-> Deviations(df, c)]
        ss  == [c \in NumericColumns |-> SumSquares(dev[c])]
    IN  [i \in 1..Len(df) |->
            \A c \in NumericColumns : AbsZBelow(Len(df), dev[c][i], ss[c])]

\* calories_data[(z_scores < 3).all(axis=1)]
OutlierFilter(df) == SelectRows(df, RowMask(df))

(***************************************************************************)
(* Cell 5: the feature matrix, the target, the dummies and the split.      *)
(***************************************************************************)
\* df.drop(columns=[c]), one row
DropColumn(r, c) == [k \in (DOMAIN r) \ {c} |-> r[k]]

\* X = calories_data.drop(columns=['Calories'])
DropCalories(df) == [i \in 1..Len(df) |-> DropColumn(df[i], "Calories")]

\* Y = calories_data['Calories']: a Series that keeps the rows' index
TargetSeries(df) ==
    [i \in 1..Len(df) |-> [index |-> df[i].index, Calories |-> df[i].Calories]]

\* pd.get_dummies(X, columns=['Age_Group'], drop_first=True), one row: one
\* indicator per category but the first; a row whose Age_Group is NaN gets 0
\* in every indicator.
DummyRow(r) ==
    DropColumn(r, "Age_Group")
        @@ [Age_Group_1 |-> IF Labels[2] \in r.Age_Group THEN 1 ELSE 0,
            Age_Group_2 |-> IF Labels[3] \in r.Age_Group THEN 1 ELSE 0,
            Age_Group_3 |-> IF Labels[4] \in r.Age_Group THEN 1 ELSE 0]

GetDummies(df) == [i \in 1..Len(df) |-> DummyRow(df[i])]

\* The columns of X after get_dummies.
FeatureColumns ==
    {"Gender", "Age", "Height", "Weight", "Duration", "Heart_Rate",
     "Body_Temp", "BMI", "Age_x_Duration", "Weight_x_Duration",
     "HeartRate_x_BodyTemp", "Age_Group_1", "Age_Group_2", "Age_Group_3"}

\* n_test = ceil(test_size * n_samples), test_size = 0.2
NTest(n) == (n * TestSizePercent + 99) \div 100

\* n_train = n_samples - n_test
NTrain(n) == n - NTest(n)

\* The shuffle rng.permutation(n) of ShuffleSplit under random_state=2 is a
\* fixed permutation of 1..n the model does not compute: the splitter draws
\* it from the rotations of 1..n and their reversals.
Rotation(n, r) == [i \in 1..n |-> ((i - 1 + r) % n) + 1]

Reversed(p) == [i \in 1..Len(p) |-> p[Len(p) + 1 - i]]

Shuffles(n) ==
    {Rotation(n, r) : r \in 0..(ShiftBound - 1)}
        \cup {Reversed(Rotation(n, r)) : r \in 0..(ShiftBound - 1)}

\* ind_test = permutation[:n_test]
TestIndices(perm) == [i \in 1..NTest(Len(perm)) |-> perm[i]]

\* The training slice starting one position early.
TrainIndices_Overlap(perm) ==
    [i \in 1..NTrain(Len(perm)) |-> perm[NTest(Len(perm)) + i - 1]]

\* ind_train = permutation[n_test:(n_test + n_train)]
TrainIndices(perm) ==
    [i \in 1..NTrain(Len(perm)) |-> perm[NTest(Len(perm)) + i]]

\* _safe_indexing(a, indices): the rows of a at the positions ind
Take(a, ind) == [i \in 1..Len(ind) |-> a[ind[i]]]

(***************************************************************************)
(* Cell 6: the pipeline.  A fitted StandardScaler holds, per feature, the  *)
(* mean and the variance of the rows it was fitted on: here the row count  *)
(* n, the sum (mean_ = sum_/n) and the sum of squared deviations           *)
(* (var_ = ss_/n^3), which determine both.  A fitted forest is a function  *)
(* of its hyper-parameters and of the data it was fitted on: the model     *)
(* holds those.                                                            *)
(***************************************************************************)
UnfitScaler == [fitted |-> FALSE, n_samples_seen_ |-> 0, sum_ |-> <<>>, ss_ |-> <<>>]

UnfitForest ==
    [fitted |-> FALSE, n_estimators |-> NEstimators, random_state |-> ForestSeed,
     fit_X |-> <<>>, fit_y |-> <<>>]

\* Pipeline([('scaler', StandardScaler()), ('model', RandomForestRegressor(...))])
UnfitPipeline == [defined |-> TRUE, scaler |-> UnfitScaler, model |-> UnfitForest]

\* The name pipeline before cell 6 binds it.
NoPipeline == [defined |-> FALSE, scaler |-> UnfitScaler, model |-> UnfitForest]

\* StandardScaler().fit(Xs)
ScalerFit(Xs) ==
    LET dev == [c \in FeatureColumns |-> Deviations(Xs, c)]
    IN  [fitted          |-> TRUE,
         n_samples_seen_ |-> Len(Xs),
         sum_ |-> [c \in FeatureColumns |->
                     SumTo([i \in 1..Len(Xs) |-> Xs[i][c]], Len(Xs))],
         ss_  |-> [c \in FeatureColumns |-> SumSquares(dev[c])]]

\* scaler.transform, one row: (x - mean_) / scale_ per feature, kept as the
\* numerator n*x - sum_ over n * scale_, scale_ = sqrt(var_) (1 when var_ = 0).
TransformRow(scaler, r) ==
    [index |-> r.index,
     z     |-> [c \in FeatureColumns |->
                  scaler.n_samples_seen_ * r[c] - scaler.sum_[c]]]

Transform(scaler, Xs) == [i \in 1..Len(Xs) |-> TransformRow(scaler, Xs[i])]

\* RandomForestRegressor.fit(Xt, y): the trained trees are a function of the
\* hyper-parameters, the seed and the data.
ForestFit(forest, Xt, y) ==
    [forest EXCEPT !.fitted = TRUE, !.fit_X = Xt, !.fit_y = y]

\* Pipeline.fit(Xs, y): fit_transform the scaler, then fit the forest on the
\* transformed rows.  Whatever the steps had learned before is discarded.
PipelineFit(p, Xs, y) ==
    LET sc == ScalerFit(Xs)
    IN  [defined |-> TRUE,
         scaler  |-> sc,
         model   |-> ForestFit(p.model, Transform(sc, Xs), y)]

\* The index labels of the rows a forest was fitted on.
ForestId(forest) == [i \in 1..Len(forest.fit_y) |-> forest.fit_y[i].index]

\* A predict that fits the scaler again on the rows it is given.
PipelinePredict_Refit(p, Xs) ==
    [i \in 1..Len(Xs) |->
        [x |-> TransformRow(ScalerFit(Xs), Xs[i]), forest |-> ForestId(p.model)]]

\* Pipeline.predict(Xs): transform with the scaler's learned parameters, then
\* the forest's mean over its trees, an uninterpreted function of the forest
\* and the transformed row.
PipelinePredict(p, Xs) ==
    [i \in 1..Len(Xs) |->
        [x |-> TransformRow(p.scaler, Xs[i]), forest |-> ForestId(p.model)]]

\* KFold(n_splits=5), no shuffle: the first n % 5 folds hold n \div 5 + 1
\* consecutive positions, the others n \div 5.
FoldSize(n, k) == (n \div CvFolds) + (IF k <= n % CvFolds THEN 1 ELSE 0)

FoldStart(n, k) == SumTo([j \in 1..CvFolds |-> FoldSize(n, j)], k - 1)

FoldTest(n, k) == [i \in 1..FoldSize(n, k) |-> FoldStart(n, k) + i]

FoldTrain(n, k) ==
    [i \in 1..(n - FoldSize(n, k)) |->
        IF i <= FoldStart(n, k) THEN i ELSE i + FoldSize(n, k)]

\* One fold of cross_val_score: clone(estimator), fit the clone on the other
\* folds, score it (r2) on the held-out fold.  The score is an uninterpreted
\* function of the fitted clone and the held-out rows: their index labels.
FoldScore(est, Xs, y, k) ==
    LET n     == Len(Xs)
        clone == [est EXCEPT !.scaler = UnfitScaler,
                             !.model.fitted = FALSE,
                             !.model.fit_X = <<>>, !.model.fit_y = <<>>]
        fit   == PipelineFit(clone, Take(Xs, FoldTrain(n, k)), Take(y, FoldTrain(n, k)))
    IN  [fitted_on |-> ForestId(fit.model),
         scored_on |-> [i \in 1..FoldSize(n, k) |-> y[FoldTest(n, k)[i]].index]]

\* cross_val_score(pipeline, X, Y, cv=5, scoring='r2')
CrossValScore(est, Xs, y) == [k \in 1..CvFolds |-> FoldScore(est, Xs, y, k)]

(***************************************************************************)
(* Cell 7: the metrics are functions of Y_test and the predictions.        *)
(***************************************************************************)
Metrics(y_true, y_pred) ==
    [computed |-> TRUE,
     pairs |-> [i \in 1..Len(y_true) |->
                  [y_true |-> y_true[i].Calories, y_pred |-> y_pred[i].x.index]]]

(***************************************************************************)
(* The run.  pc names the statement to run next; an exception sets error   *)
(* and ends the run where it is.                                           *)
(***************************************************************************)
Statements ==
    <<"load", "engineer", "filter", "prepare", "split", "create", "cv",
      "fit", "predict", "metrics", "plot", "dump", "done">>

Init ==
    /\ \E cnt \in RowCounts :
          /\ exercise_csv = ExerciseFile(cnt)
          /\ calories_csv = CaloriesFile(cnt)
    /\ pc = "load"
    /\ error = "none"
    /\ calories_data = <<>>
    /\ X = <<>> /\ Y = <<>>
    /\ X_train = <<>> /\ X_test = <<>> /\ Y_train = <<>> /\ Y_test = <<>>
    /\ pipeline = NoPipeline
    /\ cv_scores = <<>>
    /\ predictions = <<>>
    /\ metrics = [computed |-> FALSE, pairs |-> <<>>]
    /\ artifact = <<>>

\* Cell 2.
LoadData ==
    /\ pc = "load" /\ error = "none"
    /\ calories_data' = Concat(exercise_csv, calories_csv)
    /\ pc' = "engineer"
    /\ UNCHANGED <<exercise_csv, calories_csv, error, X, Y, X_train, X_test,
                   Y_train, Y_test, pipeline, cv_scores, predictions, metrics,
                   artifact>>

\* Cell 3.
EngineerFeatures ==
    /\ pc = "engineer" /\ error = "none"
    /\ calories_data' = FeatureEngineer(calories_data)
    /\ pc' = "filter"
    /\ UNCHANGED <<exercise_csv, calories_csv, error, X, Y, X_train, X_test,
                   Y_train, Y_test, pipeline, cv_scores, predictions, metrics,
                   artifact>>

\* Cell 4.
RemoveOutliers ==
    /\ pc = "filter" /\ error = "none"
    /\ calories_data' = OutlierFilter(calories_data)
    /\ pc' = "prepare"
    /\ UNCHANGED <<exercise_csv, calories_csv, error, X, Y, X_train, X_test,
                   Y_train, Y_test, pipeline, cv_scores, predictions, metrics,
                   artifact>>

\* Cell 5, up to get_dummies.
PrepareXY ==
    /\ pc = "prepare" /\ error = "none"
    /\ X' = GetDummies(DropCalories(calories_data))
    /\ Y' = TargetSeries(calories_data)
    /\ pc' = "split"
    /\ UNCHANGED <<exercise_csv, calories_csv, error, calories_data, X_train,
                   X_test, Y_train, Y_test, pipeline, cv_scores, predictions,
                   metrics, artifact>>

\* Cell 5, train_test_split(X, Y, test_size=0.2, random_state=2).  An empty
\* training set raises ValueError.
Split ==
    /\ pc = "split" /\ error = "none"
    /\ IF NTrain(Len(X)) = 0
       THEN /\ error' = "ValueError"
            /\ UNCHANGED <<pc, X_train, X_test, Y_train, Y_test>>
       ELSE /\ \E perm \in Shuffles(Len(X)) :
                  /\ X_train' = Take(X, TrainIndices(perm))
                  /\ X_test'  = Take(X, TestIndices(perm))
                  /\ Y_train' = Take(Y, TrainIndices(perm))
                  /\ Y_test'  = Take(Y, TestIndices(perm))
            /\ pc' = "create"
            /\ UNCHANGED error
    /\ UNCHANGED <<exercise_csv, calories_csv, calories_data, X, Y, pipeline,
                   cv_scores, predictions, metrics, artifact>>

\* Cell 6, pipeline = Pipeline([...]).
CreatePipeline ==
    /\ pc = "create" /\ error = "none"
    /\ pipeline' = UnfitPipeline
    /\ pc' = "cv"
    /\ UNCHANGED <<exercise_csv, calories_csv, error, calories_data, X, Y,
                   X_train, X_test, Y_train, Y_test, cv_scores, predictions,
                   metrics, artifact>>

\* A cross-validation that fits the pipeline object itself, not clones.
CrossValidate_InPlace ==
    /\ pc = "cv" /\ error = "none"
    /\ IF Len(X) < CvFolds
       THEN /\ error' = "ValueError"
            /\ UNCHANGED <<pc, cv_scores, pipeline>>
       ELSE /\ cv_scores' = CrossValScore(pipeline, X, Y)
            /\ pipeline' = PipelineFit(pipeline, X, Y)
            /\ pc' = "fit"
            /\ UNCHANGED error
    /\ UNCHANGED <<exercise_csv, calories_csv, calories_data, X, Y, X_train,
                   X_test, Y_train, Y_test, predictions, metrics, artifact>>

\* Cell 6, cross_val_score.  KFold raises ValueError for fewer rows than
\* folds.
CrossValidate ==
    /\ pc = "cv" /\ error = "none"
    /\ IF Len(X) < CvFolds
       THEN /\ error' = "ValueError"
            /\ UNCHANGED <<pc, cv_scores>>
       ELSE /\ cv_scores' = CrossValScore(pipeline, X, Y)
            /\ pc' = "fit"
            /\ UNCHANGED error
    /\ UNCHANGED <<exercise_csv, calories_csv, calories_data, X, Y, X_train,
                   X_test, Y_train, Y_test, pipeline, predictions, metrics,
                   artifact>>

\* Cell 6, pipeline.fit(X_train, Y_train).
Fit ==
    /\ pc = "fit" /\ error = "none"
    /\ pipeline' = PipelineFit(pipeline, X_train, Y_train)
    /\ pc' = "predict"
    /\ UNCHANGED <<exercise_csv, calories_csv, error, calories_data, X, Y,
                   X_train, X_test, Y_train, Y_test, cv_scores, predictions,
                   metrics, artifact>>

\* Cell 7, predictions = pipeline.predict(X_test).
Predict ==
    /\ pc = "predict" /\ error = "none"
    /\ predictions' = PipelinePredict(pipeline, X_test)
    /\ pc' = "metrics"
    /\ UNCHANGED <<exercise_csv, calories_csv, error, calories_data, X, Y,
                   X_train, X_test, Y_train, Y_test, pipeline, cv_scores,
                   metrics, artifact>>

\* Cell 7, mae, mse, rmse, r2.
Evaluate ==
    /\ pc = "metrics" /\ error = "none"
    /\ metrics' = Metrics(Y_test, predictions)
    /\ pc' = "plot"
    /\ UNCHANGED <<exercise_csv, calories_csv, error, calories_data, X, Y,
                   X_train, X_test, Y_train, Y_test, pipeline, cv_scores,
                   predictions, artifact>>

\* Cell 8: the scatter plot reads Y_test and predictions and changes nothing.
Plot ==
    /\ pc = "plot" /\ error = "none"
    /\ pc' = "dump"
    /\ UNCHANGED <<exercise_csv, calories_csv, error, calories_data, X, Y,
                   X_train, X_test, Y_train, Y_test, pipeline, cv_scores,
                   predictions, metrics, artifact>>

\* A dump that may run before pipeline.fit.
Persist_BeforeFit ==
    /\ pc \in {"fit", "dump"} /\ error = "none"
    /\ artifact' = <<pipeline>>
    /\ pc' = "done"
    /\ UNCHANGED <<exercise_csv, calories_csv, error, calories_data, X, Y,
                   X_train, X_test, Y_train, Y_test, pipeline, cv_scores,
                   predictions, metrics>>

\* Cell 9, joblib.dump(pipeline, "calories_predictor_model.pkl").
Persist ==
    /\ pc = "dump" /\ error = "none"
    /\ artifact' = <<pipeline>>
    /\ pc' = "done"
    /\ UNCHANGED <<exercise_csv, calories_csv, error, calories_data, X, Y,
                   X_train, X_test, Y_train, Y_test, pipeline, cv_scores,
                   predictions, metrics>>

Next ==
    \/ LoadData
    \/ EngineerFeatures
    \/ RemoveOutliers
    \/ PrepareXY
    \/ Split
    \/ CreatePipeline
    \/ CrossValidate
    \/ Fit
    \/ Predict
    \/ Evaluate
    \/ Plot
    \/ Persist

Spec == Init /\ [][Next]_vars

(***************************************************************************)
(* The age-bucket specification: cells 2 and 3 over a one-row file whose   *)
(* age ranges over 0..MaxAge.                                              *)
(***************************************************************************)
InitAges ==
    /\ \E age \in 0..MaxAge :
          /\ exercise_csv = <<[User_ID |-> 1001] @@ [ExerciseKind.D EXCEPT !.Age = age]>>
          /\ calories_csv = <<[User_ID |-> 1001, Calories |-> CaloriesKind.D]>>
    /\ pc = "load"
    /\ error = "none"
    /\ calories_data = <<>>
    /\ X = <<>> /\ Y = <<>>
    /\ X_train = <<>> /\ X_test = <<>> /\ Y_train = <<>> /\ Y_test = <<>>
    /\ pipeline = NoPipeline
    /\ cv_scores = <<>>
    /\ predictions = <<>>
    /\ metrics = [computed |-> FALSE, pairs |-> <<>>]
    /\ artifact = <<>>

NextAges ==
    \/ LoadData
    \/ EngineerFeatures

SpecAges == InitAges /\ [][NextAges]_vars

(***************************************************************************)
(* Vocabulary of the properties.                                           *)
(***************************************************************************)
\* The position of a statement in the notebook.
Pos(stmt) == CHOOSE i \in 1..Len(Statements) : Statements[i] = stmt

\* The run has completed statement stmt.
Past(stmt) == Pos(pc) > Pos(stmt)

\* The table the outlier filter receives: the files, joined and engineered
\* (@@ <<>> has TLC compute the table once, not row by row at each use).
PreFilter == FeatureEngineer(Concat(exercise_csv, calories_csv)) @@ <<>>

\* The twelve numeric columns of the joined table, the target among them.
NumericNames ==
    {"Gender", "Age", "Height", "Weight", "Duration", "Heart_Rate",
     "Body_Temp", "Calories", "BMI", "Age_x_Duration", "Weight_x_Duration",
     "HeartRate_x_BodyTemp"}

\* The sum of column c of df.
ColSum(df, c) == SumTo([j \in 1..Len(df) |-> df[j][c]], Len(df))

\* n^3 times the variance of column c of df, s being the column's sum.
ColVar(df, c, s) ==
    SumTo([j \in 1..Len(df) |-> (Len(df) * df[j][c] - s) * (Len(df) * df[j][c] - s)],
          Len(df))

\* The positions of the rows of df that column c flags: the z-score
\* (value - mean) / sd is undefined (sd = 0) or |z| >= 3.
Flagged(df, c) ==
    LET n == Len(df)
        s == ColSum(df, c)
        v == ColVar(df, c, s)
    IN  {i \in 1..n :
            ~(v > 0 /\ n * (n * df[i][c] - s) * (n * df[i][c] - s) < 9 * v)}

\* The positions of the rows of df that some column of cols flags.
FlaggedBy(df, cols) == UNION {Flagged(df, c) : c \in cols}

\* The positions of the rows of df no numeric column flags.
Inliers(df) == (1..Len(df)) \ FlaggedBy(df, NumericNames)

\* The columns of df whose values are all equal.
ZeroVariance(df) == {c \in NumericNames : ColVar(df, c, ColSum(df, c)) = 0}

\* Every z-score of df is defined (no column of zero variance) and none lies
\* exactly on the threshold, where float64 rounding could decide either way.
ClearCut(df) ==
    \A c \in NumericNames :
        LET n == Len(df)
            s == ColSum(df, c)
            v == ColVar(df, c, s)
        IN  /\ v > 0
            /\ \A i \in 1..n :
                  n * (n * df[i][c] - s) * (n * df[i][c] - s) # 9 * v

\* The index labels of the rows of a table.
IndexSet(df) == {df[i].index : i \in 1..Len(df)}

\* The rows of a are rows of b, in b's order.
SubTable(a, b) ==
    /\ \A j \in 1..Len(a) : \E i \in 1..Len(b) : b[i] = a[j]
    /\ \A j \in 1..(Len(a) - 1) : a[j].index < a[j + 1].index

(***************************************************************************)
(* The outlier filter.                                                     *)
(***************************************************************************)
\* The claims about the filter are stated of the state in which cell 4 has
\* just run (pc = "prepare"): no later statement assigns calories_data.

\* C1, as stated: the Outlier Filter is idempotent, that is, applied to its
\* own output (mean and standard deviation recomputed over that output) it
\* removes no further row.  Stated here for the tables on which every
\* z-score, before and after the first pass, is defined and off the
\* threshold.
C1_Idempotent ==
    (pc = "prepare" /\ ClearCut(PreFilter) /\ ClearCut(calories_data))
        => OutlierFilter(calories_data) = calories_data

\* C1, amended: applied to its own output the filter only ever removes rows
\* (what it keeps is a sub-table of the first output, in order), and it
\* removes none exactly when no row of the first output has, under the mean
\* and standard deviation recomputed over that output, an undefined z-score
\* or one of |z| >= 3; otherwise it removes further rows.
C1_SecondPassOnlyShrinks ==
    pc = "prepare" =>
        LET again == OutlierFilter(calories_data)
        IN  /\ SubTable(again, calories_data)
            /\ (again = calories_data)
                   <=> (Inliers(calories_data) = 1..Len(calories_data))

\* C1's case: a first pass that kept rows, on clear-cut tables, and a second
\* pass that removes one more.
C1_SecondPassDrops ==
    /\ pc = "prepare"
    /\ ClearCut(PreFilter) /\ ClearCut(calories_data)
    /\ Len(calories_data) < Len(PreFilter)
    /\ Len(OutlierFilter(calories_data)) < Len(calories_data)
    /\ Len(OutlierFilter(calories_data)) > 0

\* C2: the filter keeps a row if and only if every numeric column of the row
\* has a z-score, taken over the whole table before filtering, of absolute
\* value strictly below 3; one flagging column is enough to drop a row; the
\* kept rows are unchanged and in their original order.
C2_KeepsExactlyInliers ==
    pc = "prepare" =>
        LET pre == PreFilter
            inl == Inliers(pre)
        IN  /\ IndexSet(calories_data) = {pre[i].index : i \in inl}
            /\ Len(calories_data) = Cardinality(inl)
            /\ SubTable(calories_data, pre)

\* C2's case: the filter has kept some rows and dropped a row that exactly
\* one numeric column flags.
C2_DroppedByOneColumn ==
    /\ pc = "prepare"
    /\ Len(calories_data) > 0
    /\ LET pre == PreFilter
       IN  \E i \in 1..Len(pre) :
              /\ pre[i].index \notin IndexSet(calories_data)
              /\ Cardinality({c \in NumericNames : i \in Flagged(pre, c)}) = 1

\* C3: a numeric column of zero variance is never an outlier contributor: a
\* table with such a column, whose other numeric columns flag no row, passes
\* the filter with all its rows.
C3_ZeroVarianceNeverFlags ==
    (/\ pc = "prepare"
     /\ ZeroVariance(PreFilter) # {}
     /\ ZeroVariance(PreFilter) # NumericNames
     /\ FlaggedBy(PreFilter, NumericNames \ ZeroVariance(PreFilter)) = {})
        => Len(calories_data) = Len(PreFilter)

(***************************************************************************)
(* The age buckets.                                                        *)
(***************************************************************************)
\* C4: over the integer ages 1..80 the bucket assignment is total and
\* mutually exclusive, with right-closed bins: 1..18 gets bucket 0, 19..35
\* bucket 1, 36..50 bucket 2, 51..80 bucket 3, and no age in 1..80 gets none
\* or more than one.
C4_AgeBuckets ==
    Past("engineer") =>
        \A i \in 1..Len(calories_data) :
            LET a == calories_data[i].Age
                g == calories_data[i].Age_Group
            IN  /\ a \in 1..18  => g = {0}
                /\ a \in 19..35 => g = {1}
                /\ a \in 36..50 => g = {2}
                /\ a \in 51..80 => g = {3}
                /\ a \in 1..80  => Cardinality(g) = 1

\* C4's case: a boundary age has been bucketed into the lower bin.
C4_BoundaryAgeBucketed ==
    /\ pc = "filter"
    /\ \E i \in 1..Len(calories_data) :
          calories_data[i].Age = 35 /\ calories_data[i].Age_Group = {1}

\* C5, its last clause: no record with a missing bucket reaches the split or
\* the training step, that is, every row of the training and holdout sets
\* comes from a Derived Record with exactly one age-group bucket.
C5_NoMissingBucketReachesTraining ==
    Past("split") =>
        LET pre == PreFilter
        IN  \A k \in IndexSet(X_train) \cup IndexSet(X_test) :
                Cardinality(pre[k + 1].Age_Group) = 1

(***************************************************************************)
(* The order of the stages.                                                *)
(***************************************************************************)
\* The component (1 Data Loader .. 7 Persister) a statement belongs to; 8
\* for the end of the notebook.
StageOf(stmt) ==
    CASE stmt = "load" -> 1
      [] stmt = "engineer" -> 2
      [] stmt = "filter" -> 3
      [] stmt \in {"prepare", "split"} -> 4
      [] stmt \in {"create", "cv", "fit"} -> 5
      [] stmt \in {"predict", "metrics", "plot"} -> 6
      [] stmt = "dump" -> 7
      [] OTHER -> 8

\* C6: the stages run strictly in the order Data Loader, Feature Engineer,
\* Outlier Filter, Splitter, Training Pipeline, Evaluator, Persister, each
\* at most once and none before its predecessor has completed, with no
\* branch, loop or retry: every step runs the next statement or ends the
\* run with an exception, after which nothing runs; each stage's data is
\* written by that stage alone; the split is a split of the filtered table;
\* predictions come from a Fit pipeline only and the artifact holds a Fit
\* pipeline only.
C6_StrictSequence ==
    /\ [][/\ error # "none" => UNCHANGED vars
          /\ \/ Pos(pc') = Pos(pc) + 1 /\ error' = "none"
             \/ pc' = pc /\ error' # "none"
          /\ StageOf(pc') \in {StageOf(pc), StageOf(pc) + 1}
          /\ calories_data' # calories_data => StageOf(pc) \in {1, 2, 3}
          /\ <<X, Y, X_train, X_test, Y_train, Y_test>>'
                 # <<X, Y, X_train, X_test, Y_train, Y_test>> => StageOf(pc) = 4
          /\ <<pipeline, cv_scores>>' # <<pipeline, cv_scores>> => StageOf(pc) = 5
          /\ <<predictions, metrics>>' # <<predictions, metrics>> => StageOf(pc) = 6
          /\ artifact' # artifact => StageOf(pc) = 7]_vars
    /\ [](Past("split") =>
             IndexSet(X_train) \cup IndexSet(X_test)
                 = {PreFilter[i].index : i \in Inliers(PreFilter)})
    /\ [](predictions # <<>> => pipeline.scaler.fitted /\ pipeline.model.fitted)
    /\ [](metrics.computed => pipeline.scaler.fitted /\ pipeline.model.fitted)
    /\ [](artifact # <<>> => artifact[1].scaler.fitted /\ artifact[1].model.fitted)

\* C6's case: a run that went through every stage and wrote the artifact.
C6_RunCompleted ==
    /\ pc = "done"
    /\ Len(calories_data) < Len(PreFilter)
    /\ predictions # <<>>
    /\ metrics.computed
    /\ artifact # <<>>

(***************************************************************************)
(* The training pipeline.                                                  *)
(***************************************************************************)
\* C7: cross-validation is purely diagnostic: it trains fresh copies only,
\* so the pipeline object stays Unfit (no learned standardization
\* parameters, no trained trees) until fit(training set) is called, and
\* what the Fit pipeline has learned is what the training set alone
\* determines.
C7_CrossValidationIsDiagnostic ==
    /\ pc \in {"cv", "fit"} => pipeline = UnfitPipeline
    /\ Past("fit") =>
          /\ pipeline.scaler.fitted /\ pipeline.model.fitted
          /\ pipeline.scaler.n_samples_seen_ = Len(X_train)
          /\ \A c \in FeatureColumns :
                /\ pipeline.scaler.sum_[c] = ColSum(X_train, c)
                /\ pipeline.scaler.ss_[c] = ColVar(X_train, c, ColSum(X_train, c))
          /\ pipeline.model.fit_y = Y_train
          /\ Len(pipeline.model.fit_X) = Len(X_train)
          /\ \A c \in FeatureColumns :
                LET s == ColSum(X_train, c)
                IN  \A i \in 1..Len(X_train) :
                        pipeline.model.fit_X[i].z[c] = Len(X_train) * X_train[i][c] - s

\* C7's case: cross-validation has returned its five scores and the pipeline
\* is still Unfit.
C7_CrossValidatedStillUnfit ==
    /\ pc = "fit"
    /\ Len(cv_scores) = 5
    /\ pipeline = UnfitPipeline

\* C8: once the pipeline is Fit, no later step changes its standardization
\* parameters or its trained ensemble, and the holdout predictions are made
\* with the parameters learned from the training features, never re-fit on
\* the holdout set.
C8_FitIsFinal ==
    /\ [][pipeline.model.fitted => pipeline' = pipeline]_vars
    /\ [](predictions # <<>> =>
             /\ Len(predictions) = Len(X_test)
             /\ \A c \in FeatureColumns :
                   LET s == ColSum(X_train, c)
                   IN  \A i \in 1..Len(X_test) :
                           predictions[i].x.z[c] = Len(X_train) * X_test[i][c] - s
             /\ \A i \in 1..Len(X_test) :
                   /\ predictions[i].x.index = X_test[i].index
                   /\ predictions[i].forest
                          = [j \in 1..Len(Y_train) |-> Y_train[j].index])
    /\ [](artifact # <<>> => artifact[1] = pipeline)

\* C8's case: the run has predicted on a holdout set, computed the metrics,
\* plotted and persisted.
C8_PredictedAndPersisted ==
    /\ pc = "done"
    /\ Len(predictions) > 0
    /\ pipeline.model.fitted
    /\ \E c \in FeatureColumns : ColSum(X_test, c) * Len(X_train) # ColSum(X_train, c) * Len(X_test)

(***************************************************************************)
(* The splitter.                                                           *)
(***************************************************************************)
\* C9: the split partitions the filtered rows: the training and holdout row
\* sets are disjoint and together are exactly the filtered rows, none twice;
\* the holdout holds 20% of the rows, rounded up, and training the rest;
\* each feature row is paired with the label of the same original row; no
\* feature row holds the Calories column.
C9_SplitIsPartition ==
    Past("split") =>
        LET n   == Len(calories_data)
            pre == PreFilter
        IN  /\ IndexSet(X_train) \cap IndexSet(X_test) = {}
            /\ IndexSet(X_train) \cup IndexSet(X_test) = IndexSet(calories_data)
            /\ Cardinality(IndexSet(X_train)) = Len(X_train)
            /\ Cardinality(IndexSet(X_test)) = Len(X_test)
            /\ Len(X_train) + Len(X_test) = n
            /\ 5 * Len(X_test) >= n /\ 5 * (Len(X_test) - 1) < n
            /\ Len(Y_train) = Len(X_train) /\ Len(Y_test) = Len(X_test)
            /\ \A i \in 1..Len(X_train) :
                  /\ Y_train[i].index = X_train[i].index
                  /\ Y_train[i].Calories = calories_csv[X_train[i].index + 1].Calories
                  /\ X_train[i] = DummyRow(DropColumn(pre[X_train[i].index + 1], "Calories"))
                  /\ "Calories" \notin DOMAIN X_train[i]
            /\ \A i \in 1..Len(X_test) :
                  /\ Y_test[i].index = X_test[i].index
                  /\ Y_test[i].Calories = calories_csv[X_test[i].index + 1].Calories
                  /\ X_test[i] = DummyRow(DropColumn(pre[X_test[i].index + 1], "Calories"))
                  /\ "Calories" \notin DOMAIN X_test[i]

\* C9's case: a split of a filtered table whose size is no multiple of 5, so
\* that the holdout's size is rounded up.
C9_SplitRoundedUp ==
    /\ pc = "create"
    /\ Len(calories_data) = 11
    /\ Len(calories_data) < Len(PreFilter)
    /\ Len(X_test) = 3 /\ Len(X_train) = 8

(***************************************************************************)
(* The filter's columns.                                                   *)
(***************************************************************************)
\* The numeric columns but the target.
NumericFeatureNames == NumericNames \ {"Calories"}

\* C10: the filter's columns are the numeric columns of the joined table,
\* the Calories label among them and the categorical Age_Group not: a row
\* whose Calories has |z| >= 3 is dropped even when all its features have
\* |z| < 3; this holds of the rows of the holdout set as of the training
\* rows (no row of either has a label of |z| >= 3); and no row is dropped on
\* account of its Age_Group, missing or not: a row no numeric column flags
\* is kept.
C10_FilterColumns ==
    /\ pc = "prepare" =>
          LET pre == PreFilter
          IN  /\ \A i \in Flagged(pre, "Calories") :
                    pre[i].index \notin IndexSet(calories_data)
              /\ \A i \in Inliers(pre) :
                    pre[i].index \in IndexSet(calories_data)
    /\ Past("split") =>
          {k + 1 : k \in IndexSet(Y_test) \cup IndexSet(Y_train)}
              \cap Flagged(PreFilter, "Calories") = {}

\* C10's case: the filter has dropped a row that only its Calories flags
\* and has kept a row with a missing Age_Group, which the split has put in
\* the holdout set.
C10_DroppedByLabelOnly ==
    /\ pc = "create"
    /\ LET pre == PreFilter
       IN  /\ Flagged(pre, "Calories") \ FlaggedBy(pre, NumericFeatureNames) # {}
           /\ \E k \in IndexSet(X_test) : pre[k + 1].Age_Group = {}

====
